---- MODULE Spec2Model ----
(***************************************************************************)
(* A model of fix_csv.py: the two CSV normalisation functions, the TLSH    *)
(* verification pass and the main loop that drives them.                   *)
(*                                                                         *)
(* A file on disk is a sequence of characters.  A character is a string:   *)
(* the special characters of the CSV format are modelled one by one, and   *)
(* a run of ordinary characters (a word such as "Repo Name") is modelled   *)
(* as one character.  A cell is a sequence of characters, a row is a       *)
(* sequence of cells.                                                      *)
(***************************************************************************)
EXTENDS Integers, Sequences, FiniteSets, TLC

\* ------------------------------------------------------------------ bounds
MaxRows == 2    \* data lines of an input file
MaxFiles == 2   \* files found in the scanned directory

\* -------------------------------------------------------------- characters
COMMA == ","
QUOTE == "\""
LF == "\n"
CR == "\r"
SP == " "
SEMI == ";"
Whitespace == {SP, LF, CR}

\* ----------------------------------------------------------- configuration
HEADER_11_COL ==
    << <<"Repo Name">>, <<"File Name">>, <<"File Type">>, <<"Release Version">>,
       <<"TLSH Hash">>, <<"Commit_Distance">>, <<"Lines Changed">>,
       <<"SHA256 Hash">>, <<"Imphash">>, <<"Date Added">>, <<"Intel">> >>
NA == <<"N/A">>
DEFAULT_MAX_DISTANCE == 50

\* ------------------------------------------------------- sequence helpers
RECURSIVE Concat(_)
Concat(ss) == IF ss = <<>> THEN <<>> ELSE Head(ss) \o Concat(Tail(ss))

Prefix(s, k) == SubSeq(s, 1, k)

Contains(s, c) == \E i \in 1..Len(s) : s[i] = c

\* str.strip(): leading and trailing whitespace removed
RECURSIVE LStrip(_)
LStrip(s) == IF s # <<>> /\ Head(s) \in Whitespace THEN LStrip(Tail(s)) ELSE s
RECURSIVE RStrip(_)
RStrip(s) ==
    IF s # <<>> /\ s[Len(s)] \in Whitespace THEN RStrip(Prefix(s, Len(s) - 1)) ELSE s
Strip(s) == RStrip(LStrip(s))

\* str.replace(',', ';')
ReplaceComma(s) == [i \in 1..Len(s) |-> IF s[i] = COMMA THEN SEMI ELSE s[i]]

\* str.startswith('T1')
StartsWithT1(s) == Len(s) >= 2 /\ s[1] = "T" /\ s[2] = "1"

\* ------------------------------------------------------------ the csv module
\* open(path, 'r'): universal newlines, "\r\n" and "\r" are read as "\n"
UniversalNewlines(t) ==
    IF t = <<>> THEN <<>>
    ELSE LET translated == [i \in 1..Len(t) |->
                              IF t[i] = CR THEN LF
                              ELSE IF t[i] = LF /\ i > 1 /\ t[i - 1] = CR THEN ""
                              ELSE t[i]]
         IN  SelectSeq(translated, LAMBDA c : c # "")

\* csv.reader, excel dialect: the parser's state machine run over the text.
\* st is the parser state, rows the records finished, row the fields finished
\* of the current record, fld the characters of the current field.
RECURSIVE CsvScan(_, _, _, _, _, _)
CsvScan(t, i, st, rows, row, fld) ==
    IF i > Len(t)
    THEN IF st = "START_RECORD" THEN rows ELSE Append(rows, Append(row, fld))
    ELSE LET c == t[i] IN
         CASE st = "START_RECORD" /\ c = LF ->
                CsvScan(t, i + 1, "START_RECORD", Append(rows, <<>>), <<>>, <<>>)
           [] st \in {"START_RECORD", "START_FIELD"} /\ c = QUOTE ->
                CsvScan(t, i + 1, "IN_QUOTED_FIELD", rows, row, fld)
           [] st \in {"START_RECORD", "START_FIELD"} /\ c = COMMA ->
                CsvScan(t, i + 1, "START_FIELD", rows, Append(row, <<>>), <<>>)
           [] st = "START_FIELD" /\ c = LF ->
                CsvScan(t, i + 1, "START_RECORD",
                        Append(rows, Append(row, <<>>)), <<>>, <<>>)
           [] st \in {"START_RECORD", "START_FIELD"} /\ c \notin {LF, QUOTE, COMMA} ->
                CsvScan(t, i + 1, "IN_FIELD", rows, row, <<c>>)
           [] st \in {"IN_FIELD", "QUOTE_IN_QUOTED_FIELD"} /\ c = LF ->
                CsvScan(t, i + 1, "START_RECORD",
                        Append(rows, Append(row, fld)), <<>>, <<>>)
           [] st \in {"IN_FIELD", "QUOTE_IN_QUOTED_FIELD"} /\ c = COMMA ->
                CsvScan(t, i + 1, "START_FIELD", rows, Append(row, fld), <<>>)
           [] st = "IN_FIELD" /\ c \notin {LF, COMMA} ->
                CsvScan(t, i + 1, "IN_FIELD", rows, row, Append(fld, c))
           [] st = "IN_QUOTED_FIELD" /\ c = QUOTE ->
                CsvScan(t, i + 1, "QUOTE_IN_QUOTED_FIELD", rows, row, fld)
           [] st = "IN_QUOTED_FIELD" /\ c # QUOTE ->
                CsvScan(t, i + 1, "IN_QUOTED_FIELD", rows, row, Append(fld, c))
           [] st = "QUOTE_IN_QUOTED_FIELD" /\ c = QUOTE ->
                CsvScan(t, i + 1, "IN_QUOTED_FIELD", rows, row, Append(fld, c))
           [] st = "QUOTE_IN_QUOTED_FIELD" /\ c \notin {LF, COMMA, QUOTE} ->
                CsvScan(t, i + 1, "IN_FIELD", rows, row, Append(fld, c))

\* list(csv.reader(infile)) on a file opened for reading in text mode
CsvRead(text) == CsvScan(UniversalNewlines(text), 1, "START_RECORD", <<>>, <<>>, <<>>)

\* csv.writer, QUOTE_MINIMAL: a field is quoted when it holds the delimiter,
\* the quote character or a character of the line terminator; quotes are doubled
CsvField(cell) ==
    IF \E i \in 1..Len(cell) : cell[i] \in {COMMA, QUOTE, CR, LF}
    THEN <<QUOTE>>
         \o Concat([i \in 1..Len(cell) |->
                       IF cell[i] = QUOTE THEN <<QUOTE, QUOTE>> ELSE <<cell[i]>>])
         \o <<QUOTE>>
    ELSE cell

RECURSIVE JoinFields(_)
JoinFields(fields) ==
    IF fields = <<>> THEN <<>>
    ELSE IF Len(fields) = 1 THEN Head(fields)
    ELSE Head(fields) \o <<COMMA>> \o JoinFields(Tail(fields))

\* writer.writerow: the fields joined by the delimiter, then "\r\n"; a row of
\* one empty field is written as two quotes
CsvRow(row) ==
    (IF Len(row) = 1 /\ row[1] = <<>> THEN <<QUOTE, QUOTE>>
     ELSE JoinFields([i \in 1..Len(row) |-> CsvField(row[i])]))
    \o <<CR, LF>>

\* writer.writerows on a file opened with newline=''
CsvWrite(rows) == Concat([i \in 1..Len(rows) |-> CsvRow(rows[i])])

\* ------------------------------------------------------- normalisation
\* The outcome of an open/read/write of the file system, chosen by the
\* environment: no failure, open(path, 'r') or the read raises, open(path, 'w')
\* raises (nothing is truncated), or the write raises after the file has been
\* truncated and a part of the output has reached the disk.  cut selects the
\* part: the first cut rows, or (cut beyond the rows) all but the last character.
IoOutcomes ==
    {[fail |-> f, cut |-> 0] : f \in {"none", "read", "open"}}
    \cup {[fail |-> "write", cut |-> j] : j \in 0..(MaxRows + 1)}

PartialWrite(rows, cut) ==
    IF cut < Len(rows) THEN CsvWrite(Prefix(rows, cut))
    ELSE Prefix(CsvWrite(rows), Len(CsvWrite(rows)) - 1)

Message(text, nums) == [text |-> text, nums |-> nums]

\* What one call of a normalisation function returns and leaves behind: the
\* returned tuple (changed, status, message), the file's content after the
\* call, and the call's locals that the properties speak about.
Outcome(changed, status, message, disk, header_len, data_rows, updated_rows, warned) ==
    [changed |-> changed, status |-> status, message |-> message, disk |-> disk,
     header_len |-> header_len, data_rows |-> data_rows,
     updated_rows |-> updated_rows, warned |-> warned]

ErrorOutcome(disk) ==
    Outcome(FALSE, "ERROR", Message("An unexpected error occurred", <<>>), disk,
            0, <<>>, <<>>, <<>>)

EmptyOutcome(disk) ==
    Outcome(FALSE, "SKIPPED", Message("File is empty.", <<>>), disk, 0, <<>>, <<>>, <<>>)

\* with open(file_path, 'w', newline='') ...: writer.writerows(updated_rows),
\* and the return that follows it; an exception reaches the except clause
WriteAndReturn(text, io, updated_rows, message, header_len, data_rows, warned) ==
    CASE io.fail = "open" -> ErrorOutcome(text)
      [] io.fail = "write" -> ErrorOutcome(PartialWrite(updated_rows, io.cut))
      [] OTHER -> Outcome(TRUE, "SUCCESS", message, CsvWrite(updated_rows),
                          header_len, data_rows, updated_rows, warned)

\* a mutant of malware_new_row: the File Type placeholder one column late
malware_new_row_shifted(row) ==
    << row[1], row[2], row[3], NA, row[4], NA, NA, row[5], row[6], row[7], row[8] >>

malware_new_row(row) ==
    << row[1], row[2], NA, row[3], row[4], NA, NA, row[5], row[6], row[7], row[8] >>

\* a mutant of malware_updated_rows: the loop ends at the first malformed row
\* (break for continue)
RECURSIVE malware_updated_rows_break(_)
malware_updated_rows_break(data_rows) ==
    IF data_rows = <<>> THEN <<>>
    ELSE IF Len(Head(data_rows)) # 8 THEN <<>>
    ELSE <<malware_new_row(Head(data_rows))>> \o malware_updated_rows_break(Tail(data_rows))

\* the loop of lines 77-85: the rows of width 8 remapped, in order
RECURSIVE malware_updated_rows(_)
malware_updated_rows(data_rows) ==
    IF data_rows = <<>> THEN <<>>
    ELSE IF Len(Head(data_rows)) # 8 THEN malware_updated_rows(Tail(data_rows))
    ELSE <<malware_new_row(Head(data_rows))>> \o malware_updated_rows(Tail(data_rows))

\* the row numbers (enumerate(data_rows, start=2)) the loop warns about
Warned(data_rows, width) ==
    LET RECURSIVE W(_)
        W(k) == IF k > Len(data_rows) THEN <<>>
                ELSE IF Len(data_rows[k]) # width THEN <<k + 1>> \o W(k + 1)
                ELSE W(k + 1)
    IN W(1)

malware_already_correct(header_len, first_row_len) ==
    header_len = 11 /\ first_row_len = 11

\* a mutant of malware_needs_rewrite: the header width of the second case
\* is not checked
malware_needs_rewrite_any_header(header_len, first_row_len) ==
    header_len = 8 \/ first_row_len = 8

malware_needs_rewrite(header_len, first_row_len) ==
    header_len = 8 \/ (header_len = 11 /\ first_row_len = 8)

\* text is the file's content and rows what list(csv.reader(infile)) gives for
\* it, header row first: rows = CsvRead(text), read once by the caller
normalize_malware_csv(text, rows, io) ==
    IF io.fail = "read" THEN ErrorOutcome(text)
    ELSE IF rows = <<>> THEN EmptyOutcome(text)
    ELSE
      LET header == [i \in 1..Len(rows[1]) |-> Strip(rows[1][i])]
          data_rows == Tail(rows)
          header_len == Len(header)
          first_row_len == IF data_rows # <<>> THEN Len(data_rows[1]) ELSE 0
      IN
      IF malware_already_correct(header_len, first_row_len)
      THEN Outcome(FALSE, "SKIPPED",
                   Message("File is already in the correct format.", <<>>),
                   text, header_len, data_rows, <<>>, <<>>)
      ELSE IF malware_needs_rewrite(header_len, first_row_len)
      THEN LET action == IF header_len = 11 THEN "Fixed" ELSE "Updated"
               updated_rows == <<HEADER_11_COL>> \o malware_updated_rows(data_rows)
           IN WriteAndReturn(text, io, updated_rows,
                             Message("File was successfully " \o action \o ".", <<>>),
                             header_len, data_rows, Warned(data_rows, 8))
      ELSE Outcome(FALSE, "SKIPPED",
                   Message("File has an unrecognized malware format (Header, Row).",
                           <<header_len, first_row_len>>),
                   text, header_len, data_rows, <<>>, <<>>)

\* a mutant of attack_tool_new_row: the commas of File Type are left as they are
attack_tool_new_row_unfixed(row) ==
    << row[1], row[2], row[3], row[4], row[5], row[6],
       NA, row[7], row[8], row[9], row[10] >>

attack_tool_new_row(row) ==
    << row[1], row[2], ReplaceComma(row[3]), row[4], row[5], row[6],
       NA, row[7], row[8], row[9], row[10] >>

\* the loop of lines 119-133: the rows of width 10 remapped, in order
RECURSIVE attack_tool_updated_rows(_)
attack_tool_updated_rows(data_rows) ==
    IF data_rows = <<>> THEN <<>>
    ELSE IF Len(Head(data_rows)) # 10 THEN attack_tool_updated_rows(Tail(data_rows))
    ELSE <<attack_tool_new_row(Head(data_rows))>>
         \o attack_tool_updated_rows(Tail(data_rows))

normalize_attack_tool_csv(text, rows, io) ==
    IF io.fail = "read" THEN ErrorOutcome(text)
    ELSE IF rows = <<>> THEN EmptyOutcome(text)
    ELSE
      LET header == [i \in 1..Len(rows[1]) |-> Strip(rows[1][i])]
          data_rows == Tail(rows)
      IN
      IF Len(header) # 10
      THEN Outcome(FALSE, "SKIPPED",
                   Message("File is not a 10-column attack tool CSV.", <<10>>),
                   text, Len(header), data_rows, <<>>, <<>>)
      ELSE WriteAndReturn(text, io,
                          <<HEADER_11_COL>> \o attack_tool_updated_rows(data_rows),
                          Message("File was successfully fixed.", <<>>),
                          Len(header), data_rows, Warned(data_rows, 10))

\* --------------------------------------------------------- verification
\* The value None of a csv.DictReader row (restval) for a missing cell
PyNone == <<"<None>">>

LastIndexOf(fieldnames, name) ==
    LET S == {i \in 1..Len(fieldnames) : fieldnames[i] = name}
    IN CHOOSE i \in S : \A j \in S : j <= i

\* row.get(name, default) on the dict csv.DictReader builds for a row:
\* dict(zip(fieldnames, row)), the fieldnames beyond the row set to None
DictGet(fieldnames, row, name, default) ==
    IF ~Contains(fieldnames, name) THEN default
    ELSE LET j == LastIndexOf(fieldnames, name)
         IN IF j <= Len(row) THEN row[j] ELSE PyNone

\* csv.DictReader skips the rows that are empty lists
RECURSIVE NonEmptyRows(_)
NonEmptyRows(rows) ==
    IF rows = <<>> THEN <<>>
    ELSE IF Head(rows) = <<>> THEN NonEmptyRows(Tail(rows))
    ELSE <<Head(rows)>> \o NonEmptyRows(Tail(rows))

\* What tlsh.diff(reference_tlsh, current_tlsh) can do: return a distance,
\* raise ValueError, or raise another exception.
Distance(d) == [kind |-> "distance", d |-> d]
ValueError == [kind |-> "ValueError", d |-> 0]
OtherError == [kind |-> "OtherError", d |-> 0]

is_match(distance, max_distance) == distance < max_distance

\* What one row of the scan did: its number, the stripped fingerprint, what
\* happened ("no_prefix", "distance", "ValueError", or an exception that ends
\* the scan: "OtherError" from the oracle, "AttributeError" from None.strip()),
\* the distance and whether [MATCH FOUND] was printed for it.
ScanEntry(i, tlsh_hash, kind, d, match, sha256) ==
    [row |-> i, tlsh |-> tlsh_hash, kind |-> kind, d |-> d, match |-> match,
     sha256 |-> sha256]

VerifyResult(readable, matched, scan) ==
    [readable |-> readable, matched |-> matched, scan |-> scan]

\* the loop of lines 160-172 from the k-th data row on, and the return
RECURSIVE verify_scan(_, _, _, _, _, _, _)
verify_scan(fieldnames, rows, k, diff, max_distance, matches_found, scan) ==
    IF k > Len(rows) THEN VerifyResult(TRUE, matches_found, scan)
    ELSE
      LET i == k + 1
          value == DictGet(fieldnames, rows[k], <<"TLSH Hash">>, <<>>)
          current_tlsh == Strip(value)
          sha256 == DictGet(fieldnames, rows[k], <<"SHA256 Hash">>, NA)
      IN
      IF value = PyNone
      THEN VerifyResult(FALSE, FALSE,
             Append(scan, ScanEntry(i, value, "AttributeError", 0, FALSE, sha256)))
      ELSE IF ~StartsWithT1(current_tlsh)
      THEN verify_scan(fieldnames, rows, k + 1, diff, max_distance, matches_found,
             Append(scan, ScanEntry(i, current_tlsh, "no_prefix", 0, FALSE, sha256)))
      ELSE
        LET r == diff[current_tlsh] IN
        CASE r.kind = "distance" ->
               verify_scan(fieldnames, rows, k + 1, diff, max_distance,
                 matches_found \/ is_match(r.d, max_distance),
                 Append(scan, ScanEntry(i, current_tlsh, "distance", r.d,
                                        is_match(r.d, max_distance), sha256)))
          [] r.kind = "ValueError" ->
               verify_scan(fieldnames, rows, k + 1, diff, max_distance, matches_found,
                 Append(scan, ScanEntry(i, current_tlsh, "ValueError", 0, FALSE, sha256)))
          [] OTHER ->
               VerifyResult(FALSE, FALSE,
                 Append(scan, ScanEntry(i, current_tlsh, "OtherError", 0, FALSE, sha256)))

\* rows is what csv.reader gives for the file (CsvRead of its content), diff is
\* tlsh.diff(reference_tlsh, .) as a function of the fingerprint;
\* read_fails: open(file_path, 'r') or the read raises
verify_and_match_hashes(rows, diff, max_distance, read_fails) ==
    IF read_fails THEN VerifyResult(FALSE, FALSE, <<>>)
    ELSE IF rows = <<>> THEN VerifyResult(FALSE, FALSE, <<>>)
    ELSE IF ~Contains(rows[1], <<"TLSH Hash">>) THEN VerifyResult(FALSE, FALSE, <<>>)
    ELSE verify_scan(rows[1], NonEmptyRows(Tail(rows)), 1, diff, max_distance,
                     FALSE, <<>>)

\* ------------------------------------------------------------- the inputs
\* The lines input files are made of, as they stand in the file (a quoted
\* cell with its quotes).
Line8 ==
    JoinFields(<< <<"repoA">>, <<"fileB">>, <<"v1.0">>, <<"T", "1", "p">>,
                  <<"sha256x">>, <<"imphashY">>, <<"2024-01-01">>, <<"yes">> >>)
Line8q ==
    JoinFields(<< <<QUOTE, "x", COMMA, "y", QUOTE, QUOTE, "z", QUOTE>>, <<"fileC">>,
                  <<>>, <<SP, "T", "1", "q", SP>>,
                  <<"sha256y">>, <<"imphashZ">>, <<"2024-01-02">>, <<"no">> >>)
Line10 ==
    JoinFields(<< <<"toolA">>, <<"fileB">>, <<QUOTE, "exe", COMMA, "dll", QUOTE>>,
                  <<"v2">>, <<"T", "1", "q">>, <<"3">>,
                  <<"sha256x">>, <<"imphashY">>, <<"2024-01-01">>, <<"yes">> >>)
Line10u ==
    JoinFields(<< <<"toolB">>, <<"fileC">>, <<"exe", COMMA, "dll">>,
                  <<"v3">>, <<"T", "1", "p">>, <<"4">>,
                  <<"sha256y">>, <<"imphashZ">>, <<"2024-01-02">>, <<"no">> >>)
Line11H == JoinFields(HEADER_11_COL)
Line7 ==
    JoinFields(<< <<SP, "Repo Name">>, <<"File Name">>, <<"Release Version">>,
                  <<"TLSH Hash", SP>>, <<"SHA256 Hash">>, <<"Imphash">>,
                  <<"Date Added">> >>)
Line3 == JoinFields(<< <<"repoA">>, <<"fileB">>, <<"exe">> >>)
LineBlank == <<>>

HeaderLines == {LineBlank, Line7, Line8, Line10, Line11H}
DataLines == {LineBlank, Line3, Line8, Line8q, Line10, Line10u}

FileText(header, lines) ==
    header \o <<LF>> \o Concat([i \in 1..Len(lines) |-> lines[i] \o <<LF>>])

\* the empty file, and a header line followed by at most MaxRows data lines
InputFiles ==
    {<<>>} \cup
    {FileText(h, ls) : h \in HeaderLines,
                       ls \in UNION {[1..n -> DataLines] : n \in 0..MaxRows}}

\* the fingerprints of the inputs that carry the prefix, stripped
Fingerprints == {<<"T", "1", "p">>, <<"T", "1", "q">>}
Distances ==
    {DEFAULT_MAX_DISTANCE - 1, DEFAULT_MAX_DISTANCE, DEFAULT_MAX_DISTANCE + 1}
Thresholds == {DEFAULT_MAX_DISTANCE, DEFAULT_MAX_DISTANCE + 1}
\* the fingerprints a scan of the file hands to tlsh.diff
FileFingerprints(rows) ==
    IF rows = <<>> \/ ~Contains(rows[1], <<"TLSH Hash">>) THEN {}
    ELSE {fp \in Fingerprints :
            \E k \in 2..Len(rows) :
              /\ rows[k] # <<>>
              /\ Strip(DictGet(rows[1], rows[k], <<"TLSH Hash">>, <<>>)) = fp}
\* tlsh.diff(reference_tlsh, .) on the fingerprints fps: any distance or exception
Oracles(fps) == [fps -> {Distance(d) : d \in Distances} \cup {ValueError, OtherError}]
\* what a call of verify_and_match_hashes meets: an oracle and a threshold, or
\* a file that cannot be read
VerifyInputs(fps) ==
    {[diff |-> f, max_distance |-> t, read_fails |-> FALSE] : f \in Oracles(fps), t \in Thresholds}
    \cup {[diff |-> [fp \in fps |-> ValueError], max_distance |-> t,
           read_fails |-> TRUE] : t \in Thresholds}

\* ------------------------------------------------------------------ state
VARIABLES
    disk,               \* the content of each file of the directory, in os.walk order
    TLSH_AVAILABLE,     \* whether "import tlsh" succeeded
    pc,                 \* where main is: "idle", "loop", "done"
    args,               \* the parsed command line
    files_to_process,   \* main's list of files (indices into disk)
    next_file,          \* the position of the loop of line 249 in files_to_process
    changed_count, skipped_count, tests_passed, tests_failed, files_with_matches,
    stdout,             \* what main printed: status lines, diagnostics, the summary
    calls,              \* the calls main made of the normalisation and verification functions
    exit_status,        \* the process's exit status once pc = "done"
    last,               \* the last direct call of a function: what it was given and did
    reps                \* consecutive calls of normalize_malware_csv that raised nothing, up to 2

main_vars ==
    << TLSH_AVAILABLE, pc, args, files_to_process, next_file, changed_count,
       skipped_count, tests_passed, tests_failed, files_with_matches, stdout,
       calls, exit_status >>
vars == << disk, main_vars, last, reps >>

NoArgs ==
    [normalize_malware |-> FALSE, normalize_attack_tools |-> FALSE, file |-> 0,
     test |-> FALSE, max_distance |-> DEFAULT_MAX_DISTANCE]
NoOutcome == Outcome(FALSE, "NONE", Message("", <<>>), <<>>, 0, <<>>, <<>>, <<>>)
NoVerify == VerifyResult(FALSE, FALSE, <<>>)
NoCall ==
    [op |-> "none", before |-> <<>>, rows |-> <<>>, failed |-> "none",
     out |-> NoOutcome, ver |-> NoVerify, max_distance |-> 0]

MainIdle ==
    /\ pc = "idle"
    /\ args = NoArgs
    /\ files_to_process = <<>>
    /\ next_file = 1
    /\ changed_count = 0 /\ skipped_count = 0
    /\ tests_passed = 0 /\ tests_failed = 0
    /\ files_with_matches = <<>>
    /\ stdout = <<>>
    /\ calls = <<>>
    /\ exit_status = 0

\* ------------------------------------------- the functions, called directly
\* the failure the environment chose is one the call met: a failure of
\* open(file_path, 'w') or of the write is met only by a call that rewrites
Happens(io, out) == io.fail \in {"open", "write"} => out.status = "ERROR"

InitFunctions ==
    /\ disk \in {<<text>> : text \in InputFiles}
    /\ TLSH_AVAILABLE = TRUE
    /\ MainIdle
    /\ last = NoCall
    /\ reps = 0

CallNormalizeMalware ==
    \E rows \in {CsvRead(disk[1])} : \E io \in IoOutcomes :
      LET out == normalize_malware_csv(disk[1], rows, io) IN
      /\ disk' = <<out.disk>>
      /\ Happens(io, out)
      /\ last' = [op |-> "normalize_malware_csv", before |-> disk[1], rows |-> rows,
                  failed |-> io.fail, out |-> out, ver |-> NoVerify, max_distance |-> 0]
      /\ reps' = IF out.status = "ERROR" THEN 0 ELSE IF reps < 2 THEN reps + 1 ELSE 2
      /\ UNCHANGED main_vars

CallNormalizeAttackTool ==
    \E rows \in {CsvRead(disk[1])} : \E io \in IoOutcomes :
      LET out == normalize_attack_tool_csv(disk[1], rows, io) IN
      /\ disk' = <<out.disk>>
      /\ Happens(io, out)
      /\ last' = [op |-> "normalize_attack_tool_csv", before |-> disk[1], rows |-> rows,
                  failed |-> io.fail, out |-> out, ver |-> NoVerify, max_distance |-> 0]
      /\ reps' = 0
      /\ UNCHANGED main_vars

CallVerify ==
    \E rows \in {CsvRead(disk[1])} : \E in \in VerifyInputs(FileFingerprints(rows)) :
      /\ last' = [op |-> "verify_and_match_hashes", before |-> disk[1], rows |-> rows,
                  failed |-> IF in.read_fails THEN "read" ELSE "none",
                  out |-> NoOutcome,
                  ver |-> verify_and_match_hashes(rows, in.diff, in.max_distance,
                                                 in.read_fails),
                  max_distance |-> in.max_distance]
      /\ reps' = 0
      /\ UNCHANGED << disk, main_vars >>

\* a call of one of the functions on the file; rows is what csv.reader gives
\* for the file's content
NextFunctions ==
    \/ CallNormalizeMalware
    \/ CallNormalizeAttackTool
    \/ CallVerify

SpecFunctions == InitFunctions /\ [][NextFunctions]_vars

\* ------------------------------------------------------------------- main
MALWARE_TEST_HASH == "T1FE360823FC9710D6C67EE134C6A66732BF71745983317B836EA049666E1AFE46A3D300"
ATTACK_TOOL_TEST_HASH == "T199A6337BB48D242BFA2A9736946084737E7E16E8D78B301229F5493A437D1B2F03745"

\* the files a scanned directory holds
MainFiles ==
    { <<>>,
      FileText(Line7, <<>>),
      FileText(Line8, <<Line8q, Line3>>),
      FileText(Line10, <<Line10>>),
      FileText(Line11H, <<Line10>>) }

\* the command lines: the two mode flags, -f (0: not given; a number beyond
\* the directory's files: a path that does not exist), --test, --max-distance
CommandLines ==
    [normalize_malware : BOOLEAN, normalize_attack_tools : BOOLEAN,
     file : {0, 1, MaxFiles + 1}, test : BOOLEAN, max_distance : Thresholds]

\* what a call of verify_and_match_hashes made by main meets
MainVerifyInputs ==
    {[diff |-> [fp \in Fingerprints |-> o], read_fails |-> FALSE] :
        o \in {Distance(DEFAULT_MAX_DISTANCE - 1), Distance(DEFAULT_MAX_DISTANCE),
               ValueError, OtherError}}
    \cup {[diff |-> [fp \in Fingerprints |-> ValueError], read_fails |-> TRUE]}

\* a line of output: what it is, the file it is about, its text and numbers
Printed(kind, file, text, nums, files) ==
    [kind |-> kind, file |-> file, text |-> text, nums |-> nums, files |-> files]

Called(fn, file, reference_tlsh) ==
    [fn |-> fn, file |-> file, reference_tlsh |-> reference_tlsh]

\* find_csv_files(args.directory): every file of the directory, in os.walk order
find_csv_files == [i \in 1..Len(disk) |-> i]

Init ==
    /\ disk \in UNION {[1..n -> MainFiles] : n \in 0..MaxFiles}
    /\ TLSH_AVAILABLE \in BOOLEAN
    /\ MainIdle
    /\ last = NoCall
    /\ reps = 0

\* main up to the loop: lines 185-247
MainStart ==
    /\ pc = "idle"
    /\ \E a \in CommandLines :
         /\ args' = a
         /\ IF a.normalize_malware /\ a.normalize_attack_tools
            THEN \* the mutually exclusive group: parse_args() exits with status 2
                 /\ pc' = "done"
                 /\ exit_status' = 2
                 /\ UNCHANGED << stdout, files_to_process >>
            ELSE IF a.test /\ ~TLSH_AVAILABLE
            THEN /\ pc' = "done"
                 /\ exit_status' = 0
                 /\ stdout' = << Printed("error", 0,
                                  "[ERROR] The '--test' feature requires the 'tlsh' library.",
                                  <<>>, <<>>) >>
                 /\ UNCHANGED files_to_process
            ELSE LET files == IF a.file # 0
                              THEN IF a.file <= Len(disk) THEN <<a.file>> ELSE <<>>
                              ELSE find_csv_files
                     mode == Printed("mode", 0,
                                     IF a.normalize_attack_tools
                                     THEN "--- Running in Attack Tool Normalization Mode ---"
                                     ELSE "--- Running in Malware Normalization Mode (Default) ---",
                                     <<>>, <<>>)
                 IN /\ files_to_process' = files
                    /\ IF files = <<>>
                       THEN /\ stdout' = << mode, Printed("none", 0,
                                              "No CSV files found to process.", <<>>, <<>>) >>
                            /\ pc' = "done"
                            /\ exit_status' = 0
                       ELSE /\ stdout' = << mode, Printed("found", 0,
                                              "Found CSV files. Starting process...",
                                              <<Len(files)>>, <<>>) >>
                            /\ pc' = "loop"
                            /\ UNCHANGED exit_status
    /\ UNCHANGED << disk, TLSH_AVAILABLE, next_file, changed_count, skipped_count,
                    tests_passed, tests_failed, files_with_matches, calls, last, reps >>

\* one turn of the loop of lines 249-268
ProcessFile ==
    /\ pc = "loop"
    /\ next_file <= Len(files_to_process)
    /\ LET file_path == files_to_process[next_file]
           text == disk[file_path]
           reference_tlsh == IF args.normalize_attack_tools THEN ATTACK_TOOL_TEST_HASH
                             ELSE MALWARE_TEST_HASH
       IN
       \E rows \in {CsvRead(text)}, io \in IoOutcomes :
         LET out == IF args.normalize_attack_tools
                    THEN normalize_attack_tool_csv(text, rows, io)
                    ELSE normalize_malware_csv(text, rows, io)
             status_line == Printed("status", file_path, out.status, out.message.nums, <<>>)
             normalize_call == Called(IF args.normalize_attack_tools
                                      THEN "normalize_attack_tool_csv"
                                      ELSE "normalize_malware_csv", file_path, "")
         IN
         /\ disk' = [disk EXCEPT ![file_path] = out.disk]
         /\ changed_count' = IF out.changed THEN changed_count + 1 ELSE changed_count
         /\ skipped_count' = IF ~out.changed /\ out.status = "SKIPPED"
                             THEN skipped_count + 1 ELSE skipped_count
         /\ IF args.test
            THEN \E written \in {IF out.disk = text THEN rows ELSE CsvRead(out.disk)},
                    in \in MainVerifyInputs :
                   LET ver == verify_and_match_hashes(written, in.diff, args.max_distance,
                                                      in.read_fails)
                   IN /\ tests_passed' = IF ver.readable THEN tests_passed + 1
                                         ELSE tests_passed
                      /\ tests_failed' = IF ver.readable THEN tests_failed
                                         ELSE tests_failed + 1
                      /\ files_with_matches' = IF ver.matched
                                               THEN Append(files_with_matches, file_path)
                                               ELSE files_with_matches
                      /\ stdout' = stdout \o << status_line >>
                            \o [k \in 1..Len(ver.scan) |->
                                  Printed("match", file_path, IF ver.scan[k].match
                                          THEN "[MATCH FOUND]" ELSE "",
                                          <<ver.scan[k].row, ver.scan[k].d>>, <<>>)]
                      /\ calls' = calls \o << normalize_call,
                                     Called("verify_and_match_hashes", file_path,
                                            reference_tlsh) >>
            ELSE /\ stdout' = Append(stdout, status_line)
                 /\ calls' = Append(calls, normalize_call)
                 /\ UNCHANGED << tests_passed, tests_failed, files_with_matches >>
    /\ next_file' = next_file + 1
    /\ UNCHANGED << TLSH_AVAILABLE, pc, args, files_to_process, exit_status, last, reps >>

\* the summary report of lines 270-291, and main's return
Summary ==
    /\ pc = "loop"
    /\ next_file > Len(files_to_process)
    /\ stdout' = Append(stdout,
         Printed("summary", 0, "Process Summary",
                 << Len(files_to_process), changed_count, skipped_count >>
                 \o (IF args.test
                     THEN << Len(files_to_process), tests_passed, tests_failed >>
                     ELSE <<>>),
                 IF args.test THEN files_with_matches ELSE <<>>))
    /\ pc' = "done"
    /\ exit_status' = 0
    /\ UNCHANGED << disk, TLSH_AVAILABLE, args, files_to_process, next_file,
                    changed_count, skipped_count, tests_passed, tests_failed,
                    files_with_matches, calls, last, reps >>

Next == MainStart \/ ProcessFile \/ Summary

Spec == Init /\ [][Next]_vars

\* ---------------------------------------------- properties of the functions
\* What the last call was given and what it left, read back from the disk.
Before == last.rows
Output == CsvRead(disk[1])
BeforeHeaderLen == Len(Before[1])
BeforeDataRows == Tail(Before)

RECURSIVE RowsOfWidth(_, _)
RowsOfWidth(rows, w) ==
    IF rows = <<>> THEN <<>>
    ELSE IF Len(Head(rows)) = w THEN <<Head(rows)>> \o RowsOfWidth(Tail(rows), w)
    ELSE RowsOfWidth(Tail(rows), w)

\* the call read a file that has a header row, and no open, read or write failed
Ran(op) == last.op = op /\ last.failed = "none" /\ Before # <<>>

LegacyMalware8 ==
    /\ Ran("normalize_malware_csv")
    /\ \/ BeforeHeaderLen = 8
       \/ BeforeHeaderLen = 11 /\ BeforeDataRows # <<>> /\ Len(BeforeDataRows[1]) = 8

AttackTool10 == Ran("normalize_attack_tool_csv") /\ BeforeHeaderLen = 10

NamesWidth(message, w) == \E i \in 1..Len(message.nums) : message.nums[i] = w

\* C1: after a call of either normalisation function the file is either what
\* it was before the call (status SKIPPED or ERROR) or the complete canonical
\* table (status SUCCESS); a partially written file is never left on disk.
C1_RewriteIsAtomic ==
    last.op \in {"normalize_malware_csv", "normalize_attack_tool_csv"} =>
      \/ last.out.status \in {"SKIPPED", "ERROR"} /\ disk[1] = last.before
      \/ /\ last.out.status = "SUCCESS"
         /\ disk[1] = CsvWrite(last.out.updated_rows)
         /\ last.out.updated_rows[1] = HEADER_11_COL

\* C2: a second run of normalize_malware_csv on the file the first run left
\* returns (False, SKIPPED, "already in the correct format") and leaves the
\* file as it is.  Stated for the files the first run rewrote, where the
\* file left is the canonical table.
C2_SecondRunAlreadyCorrect ==
    (last.op = "normalize_malware_csv" /\ reps = 2 /\ last.failed = "none"
        /\ Before # <<>> /\ Before[1] = HEADER_11_COL /\ last.before = CsvWrite(Before)) =>
      /\ last.out.changed = FALSE
      /\ last.out.status = "SKIPPED"
      /\ last.out.message.text = "File is already in the correct format."
      /\ disk[1] = last.before

\* C3: in malware mode a file of the legacy layout (header width 8, or header
\* width 11 with a first data row of width 8) is rewritten so that every data
\* row [a,b,c,d,e,f,g,h] of width 8 stands in the output as
\* [a, b, "N/A", c, d, "N/A", "N/A", e, f, g, h].
C3_LegacyRowsRemapped ==
    LegacyMalware8 =>
      LET src == RowsOfWidth(BeforeDataRows, 8) IN
      /\ last.out.status = "SUCCESS"
      /\ Len(Output) = Len(src) + 1
      /\ \A k \in 1..Len(src) :
           Output[k + 1] = << src[k][1], src[k][2], <<"N/A">>, src[k][3], src[k][4],
                              <<"N/A">>, <<"N/A">>, src[k][5], src[k][6], src[k][7],
                              src[k][8] >>

C3_Witness ==
    /\ LegacyMalware8
    /\ Len(RowsOfWidth(BeforeDataRows, 8)) = 2
    /\ BeforeDataRows[1][1] = <<"x", COMMA, "y", QUOTE, "z">>
    /\ Len(Output) = 3

\* C4: in attack-tool mode a file with header width 10 is rewritten so that
\* every data row r of width 10 stands in the output as
\* [r0, r1, ft, r3, r4, r5, "N/A", r6, r7, r8, r9], ft being r2 with every
\* comma replaced by a semicolon.
C4_AttackToolRowsRemapped ==
    AttackTool10 =>
      LET src == RowsOfWidth(BeforeDataRows, 10) IN
      /\ last.out.status = "SUCCESS"
      /\ Len(Output) = Len(src) + 1
      /\ \A k \in 1..Len(src) :
           /\ Len(Output[k + 1]) = 11
           /\ \A j \in {1, 2, 4, 5, 6} : Output[k + 1][j] = src[k][j]
           /\ \A j \in 7..10 : Output[k + 1][j + 1] = src[k][j]
           /\ Output[k + 1][7] = <<"N/A">>
           /\ Len(Output[k + 1][3]) = Len(src[k][3])
           /\ \A c \in 1..Len(src[k][3]) :
                Output[k + 1][3][c] = IF src[k][3][c] = "," THEN ";" ELSE src[k][3][c]

C4_Witness ==
    /\ AttackTool10
    /\ \E k \in 1..Len(BeforeDataRows) :
         /\ Len(BeforeDataRows[k]) = 10
         /\ BeforeDataRows[k][3] = <<"exe", ",", "dll">>
    /\ \E k \in 1..Len(Output) : Output[k][3] = <<"exe", ";", "dll">>

RecognisedWidths(op) == IF op = "normalize_malware_csv" THEN {8, 11} ELSE {10}

UnrecognisedHeader ==
    /\ Ran("normalize_malware_csv") \/ Ran("normalize_attack_tool_csv")
    /\ BeforeHeaderLen \notin RecognisedWidths(last.op)

\* C6 as claimed: a file whose header width the active mode does not recognise
\* is not modified, the result is (False, SKIPPED, message), and the message
\* names the observed header width.
C6_MessageNamesWidth ==
    UnrecognisedHeader =>
      /\ disk[1] = last.before
      /\ last.out.changed = FALSE /\ last.out.status = "SKIPPED"
      /\ NamesWidth(last.out.message, BeforeHeaderLen)

\* C6, amended: such a file is not modified and the result is (False, SKIPPED,
\* message); in malware mode the message names the observed header width, in
\* attack-tool mode it is the fixed text "File is not a 10-column attack tool
\* CSV.", which does not name it.
C6_UnrecognisedIsSkipped ==
    UnrecognisedHeader =>
      /\ disk[1] = last.before
      /\ last.out.changed = FALSE /\ last.out.status = "SKIPPED"
      /\ last.op = "normalize_malware_csv" =>
           NamesWidth(last.out.message, BeforeHeaderLen)
      /\ last.op = "normalize_attack_tool_csv" =>
           /\ last.out.message.text = "File is not a 10-column attack tool CSV."
           /\ ~NamesWidth(last.out.message, BeforeHeaderLen)

C6_Witness ==
    /\ UnrecognisedHeader
    /\ BeforeHeaderLen = 7
    /\ Len(BeforeDataRows) > 0
    /\ last.op = "normalize_attack_tool_csv"
    /\ last.out.status = "SKIPPED"

\* C7: a row whose stripped fingerprint starts with "T1" and for which the
\* oracle returns a distance d is recorded as a match iff d < max_distance;
\* the returned matched flag is true iff at least one such row matched; a row
\* whose fingerprint lacks the prefix never contributes a match.
C7_MatchIffBelowThreshold ==
    last.op = "verify_and_match_hashes" =>
      LET scan == last.ver.scan IN
      /\ \A k \in 1..Len(scan) :
           /\ scan[k].kind = "distance" => (scan[k].match <=> scan[k].d < last.max_distance)
           /\ scan[k].kind = "no_prefix" => ~scan[k].match
      /\ last.ver.matched <=> \E k \in 1..Len(scan) : scan[k].match

\* C10: when the oracle fails on a row's fingerprint, with any kind of
\* failure, the row is skipped, the scan goes on with the next rows, and the
\* result is (readable=True, matched=<whether another row matched>).
C10_OracleFailureSkipsRow ==
    (/\ last.op = "verify_and_match_hashes"
     /\ \E k \in 1..Len(last.ver.scan) : last.ver.scan[k].kind \in {"ValueError", "OtherError"}
     /\ \A k \in 1..Len(last.ver.scan) : last.ver.scan[k].kind # "AttributeError") =>
      /\ last.ver.readable
      /\ Len(last.ver.scan) = Len(NonEmptyRows(Tail(Before)))
      /\ last.ver.matched <=> \E k \in 1..Len(last.ver.scan) : last.ver.scan[k].match

\* ------------------------------------------------------ properties of main
IsStatusLine(line) == line.kind = "status"
IsNormalizeCall(call) == call.fn # "verify_and_match_hashes"
FilesOf(entries) == [k \in 1..Len(entries) |-> entries[k].file]

OracleCheckFails == args.test /\ ~TLSH_AVAILABLE
ArgumentsParsed == ~(args.normalize_malware /\ args.normalize_attack_tools)

\* C8: when --test is given and the oracle is unavailable the run ends before
\* any file is discovered, read or written, with no normalisation or
\* verification call, and with a non-zero exit status.
C8_AbortIsNonZero ==
    (pc = "done" /\ ArgumentsParsed /\ OracleCheckFails) =>
      /\ files_to_process = <<>>
      /\ calls = <<>>
      /\ exit_status # 0

\* C9: a run that passes the oracle check gives every file of the list one
\* normalisation call and one status line, in list order, and ends with the
\* summary, also when the list is empty.
C9_EveryFileOnceThenSummary ==
    (pc = "done" /\ ArgumentsParsed /\ ~OracleCheckFails) =>
      /\ FilesOf(SelectSeq(calls, IsNormalizeCall)) = files_to_process
      /\ FilesOf(SelectSeq(stdout, IsStatusLine)) = files_to_process
      /\ stdout # <<>>
      /\ stdout[Len(stdout)].kind = "summary"
      /\ stdout[Len(stdout)].nums[1] = Len(files_to_process)

====
